---- MODULE Spec2Model ----
(***************************************************************************)
(* The Lambda data source of the Product API: the dispatcher               *)
(* (exports.handler), the authorization guard (checkForGroup), the six     *)
(* operation handlers and the DynamoDB table they share.                   *)
(*                                                                         *)
(* A JavaScript object is a function whose DOMAIN is the set of properties *)
(* it has; a property that is undefined or null is absent from the DOMAIN. *)
(* One invocation of the Lambda is one Dispatch step (each handler issues  *)
(* exactly one store request, so the step is atomic on the table) followed *)
(* by one Respond step that ends the invocation.                           *)
(*                                                                         *)
(* Spec is the API as its clients drive it.  SpecGuard is checkForGroup on *)
(* its own, SpecList is listProducts on tables of any size, SpecOrder is   *)
(* the creates, reads, updates and deletes with the history of one id, and *)
(* SpecConcurrent is updateProduct invoked concurrently for one id.        *)
(***************************************************************************)
EXTENDS Integers, Sequences, FiniteSets, TLC

VARIABLES
  table,      \* the DynamoDB table: primary key id -> stored item
  generated,  \* the ids uuid() has returned so far
  event,      \* the AppSync event of the invocation in progress (NoEvent when idle)
  outcome,    \* what exports.handler returned or threw for that event
  invoked,    \* the operation handler exports.handler called, with its argument
  calls,      \* the requests issued to the DocumentClient during the invocation
  before,     \* the table as it was when the invocation started
  group,      \* the group name the guard is asked about
  tracked,    \* history: the last served create or delete of one id, while it counts
  inflight,   \* the concurrent invocations that have not reached the store yet
  applied     \* the concurrent invocations the store has answered, in its order

vars == <<table, generated, event, outcome, invoked, calls, before, group,
          tracked, inflight, applied>>

----------------------------------------------------------------------------
(* Bounds of the model *)

\* how many ids uuid() may hand out in one behaviour
MaxUuids == 2
\* the longest cognito:groups list a caller carries
MaxGroups == 2
\* how many invocations of updateProduct run concurrently
MaxCalls == 2

----------------------------------------------------------------------------
(* Values *)

UuidStr == <<"u1", "u2", "u3", "u4">>
UuidPool == {UuidStr[i] : i \in 1..MaxUuids}
\* ids a client makes up itself
ClientIds == {"1"}
Keys == ClientIds \cup UuidPool

NonKeyAttrs == {"name", "category"}
AttrValues(a) == IF a = "name" THEN {"A"} ELSE {"x", "y"}
Categories == AttrValues("category")

\* every object over the non-key attributes, each present or absent
Patches ==
  UNION {{p \in [D -> AttrValues("name") \cup AttrValues("category")] :
            \A a \in D : p[a] \in AttrValues(a)} : D \in SUBSET NonKeyAttrs}

EmptyObject == [a \in {} |-> "x"]

\* an object with one more property
WithProp(obj, k, v) == [a \in DOMAIN obj \cup {k} |-> IF a = k THEN v ELSE obj[a]]

\* JavaScript truthiness of a string property: absent (undefined) and "" are falsy
Truthy(obj, k) == k \in DOMAIN obj /\ obj[k] # ""

GroupNames == {"Admin", "admin", "Editor"}
GroupLists == UNION {[1..n -> GroupNames] : n \in 0..MaxGroups}

----------------------------------------------------------------------------
(* Results of a call: a returned value or a thrown error.  type tells what  *)
(* val holds, so that values of different kinds are never compared.         *)

Return(type, val) == [kind |-> "return", type |-> type, val |-> val]
Throw(msg) == [kind |-> "throw", type |-> "error", val |-> msg]
ReturnNull == Return("null", "null")
ReturnUndefined == Return("undefined", "undefined")
NoOutcome == [kind |-> "none", type |-> "none", val |-> "none"]

----------------------------------------------------------------------------
(* The authorization guard *)

\* Array.prototype.includes: strict equality against each element
Includes(list, x) == \E i \in 1..Len(list) : list[i] = x

\* String.prototype.toLowerCase on the group names of the model
ToLowerCase(s) == IF s = "Admin" THEN "admin" ELSE IF s = "Editor" THEN "editor" ELSE s

\* the guard with a case-insensitive comparison
checkForGroupIgnoringCase(ev, groupName) ==
  IF "identity" \in DOMAIN ev
  THEN IF "claims" \notin DOMAIN ev.identity
       THEN Throw("TypeError")
       ELSE IF "cognito:groups" \in DOMAIN ev.identity.claims
            THEN Return("boolean",
                        \E i \in 1..Len(ev.identity.claims["cognito:groups"]) :
                           ToLowerCase(ev.identity.claims["cognito:groups"][i])
                             = ToLowerCase(groupName))
            ELSE Return("boolean", FALSE)
  ELSE Return("boolean", FALSE)

\* the guard looking at the first group only
checkForGroupFirstOnly(ev, groupName) ==
  IF "identity" \in DOMAIN ev
  THEN IF "claims" \notin DOMAIN ev.identity
       THEN Throw("TypeError")
       ELSE IF "cognito:groups" \in DOMAIN ev.identity.claims
            THEN Return("boolean",
                        /\ Len(ev.identity.claims["cognito:groups"]) > 0
                        /\ ev.identity.claims["cognito:groups"][1] = groupName)
            ELSE Return("boolean", FALSE)
  ELSE Return("boolean", FALSE)

\* event.identity.claims['cognito:groups'] reads a property of claims: with
\* claims undefined the read throws a TypeError
checkForGroup(ev, groupName) ==
  IF "identity" \in DOMAIN ev
  THEN IF "claims" \notin DOMAIN ev.identity
       THEN Throw("TypeError")
       ELSE IF "cognito:groups" \in DOMAIN ev.identity.claims
            THEN IF Includes(ev.identity.claims["cognito:groups"], groupName)
                 THEN Return("boolean", TRUE)
                 ELSE Return("boolean", FALSE)
            ELSE Return("boolean", FALSE)
  ELSE Return("boolean", FALSE)

----------------------------------------------------------------------------
(* The DynamoDB table behind the DocumentClient *)

\* PutItem: the item replaces whatever is stored under its key
StorePut(tbl, item) ==
  [k \in DOMAIN tbl \cup {item.id} |-> IF k = item.id THEN item ELSE tbl[k]]

\* GetItem: {Item} when the key is stored, {} when it is not
StoreGet(tbl, id) ==
  IF id \in DOMAIN tbl THEN Return("item", tbl[id]) ELSE ReturnUndefined

\* DeleteItem: succeeds whether or not the key is stored
StoreDelete(tbl, id) == [k \in DOMAIN tbl \ {id} |-> tbl[k]]

\* Scan: every item of the table
StoreScan(tbl) == {tbl[k] : k \in DOMAIN tbl}

\* a query that asks the index for every entry, whatever its category
StoreQueryAnyCategory(tbl, category) ==
  {tbl[k] : k \in {j \in DOMAIN tbl : "category" \in DOMAIN tbl[j]}}

\* Query on the productsByCategory index: the items that have the index key
\* category, with the value asked for
StoreQuery(tbl, category) ==
  {tbl[k] : k \in {j \in DOMAIN tbl :
                     "category" \in DOMAIN tbl[j] /\ tbl[j].category = category}}

\* One Scan or Query request hands back at most 1 MB of items, and the key
\* to go on from; listProducts and productsByCategory send one request and
\* read Items alone.  PageItems is the number of items that fill the 1 MB.
PageItems == 4

\* what one request may hand back of the items S that match it: all of them
\* when they fit the page, else a page of them, as the store picks it
Pages(S) ==
  IF Cardinality(S) <= PageItems
  THEN {S}
  ELSE {P \in SUBSET S : Cardinality(P) = PageItems}

\* UpdateItem with a "set" expression: the named attributes are set on the
\* item stored under Key; when none is stored, one is created from the key
\* and the attributes set
StoreUpdate(tbl, params) ==
  LET id == params.Key.id
      old == IF id \in DOMAIN tbl THEN tbl[id] ELSE [a \in {"id"} |-> id]
      new == [a \in DOMAIN old \cup DOMAIN params.ExpressionAttributeValues |->
                IF a \in DOMAIN params.ExpressionAttributeValues
                THEN params.ExpressionAttributeValues[a] ELSE old[a]]
  IN [k \in DOMAIN tbl \cup {id} |-> IF k = id THEN new ELSE tbl[k]]

\* UpdateItem rejects a request whose key is missing or empty, and one whose
\* UpdateExpression is empty
UpdateRequestValid(params) ==
  /\ Truthy(params.Key, "id")
  /\ params.UpdateExpression # {}

\* the orders in which the store may hand back a set of items
Orderings(S) ==
  {s \in [1..Cardinality(S) -> S] : \A i, j \in 1..Cardinality(S) : s[i] = s[j] => i = j}

----------------------------------------------------------------------------
(* The operation handlers.  Each takes the table and its argument, and     *)
(* whether the store serves the one request it sends (ok: the store may    *)
(* fail any request: throttling, connectivity); it gives back what it      *)
(* returns (ret), the table afterwards (tbl), the requests it sent (reqs)  *)
(* and its argument as it leaves it (arg).                                 *)

Result(ret, tbl, reqs, arg) == [ret |-> ret, tbl |-> tbl, reqs |-> reqs, arg |-> arg]
Request(op, failed) == [op |-> op, failed |-> failed]
\* a request the store answers with a ValidationException
Rejected(op) == [op |-> op, failed |-> TRUE, error |-> "ValidationException"]

Range(seq) == {seq[i] : i \in 1..Len(seq)}

\* uuid() handing out ids it has handed out before
uuidRepeating(used) == UuidPool

\* the values uuid() may return: a version-4 UUID, never one it returned before
uuid(used) == UuidPool \ used

\* the request updateProduct builds: one "set" clause per own property of
\* product other than id (UpdateExpression is kept as the set of attributes
\* it assigns: it is the empty string exactly when that set is empty)
UpdateParams(product) ==
  [Key |-> [a \in {"id"} \cap DOMAIN product |-> product[a]],
   UpdateExpression |-> DOMAIN product \ {"id"},
   ExpressionAttributeValues |-> [a \in DOMAIN product \ {"id"} |-> product[a]]]

\* createProduct generating an id only for an input that has no id property
createProductIdUndefinedOnly(tbl, product, ok, u) ==
  LET p == IF "id" \notin DOMAIN product THEN WithProp(product, "id", u) ELSE product
  IN IF ok
     THEN Result(Return("item", p), StorePut(tbl, p), <<Request("put", FALSE)>>, p)
     ELSE Result(ReturnNull, tbl, <<Request("put", TRUE)>>, p)

\* createProduct writing with an update (a merge) instead of a put
createProductMerging(tbl, product, ok, u) ==
  LET p == IF ~Truthy(product, "id") THEN WithProp(product, "id", u) ELSE product
  IN IF ok
     THEN Result(Return("item", p), StoreUpdate(tbl, UpdateParams(p)),
                 <<Request("put", FALSE)>>, p)
     ELSE Result(ReturnNull, tbl, <<Request("put", TRUE)>>, p)

\* u is the value uuid() returns if it is called
createProduct(tbl, product, ok, u) ==
  LET p == IF ~Truthy(product, "id") THEN WithProp(product, "id", u) ELSE product
  IN IF ok
     THEN Result(Return("item", p), StorePut(tbl, p), <<Request("put", FALSE)>>, p)
     ELSE Result(ReturnNull, tbl, <<Request("put", TRUE)>>, p)

\* getProductById without its try/catch
getProductByIdNoCatch(tbl, productId, ok) ==
  IF ok
  THEN Result(StoreGet(tbl, productId), tbl, <<Request("get", FALSE)>>, productId)
  ELSE Result(Throw("StoreError"), tbl, <<Request("get", TRUE)>>, productId)

\* the catch block logs and falls off the end of the function: undefined
getProductById(tbl, productId, ok) ==
  IF ok
  THEN Result(StoreGet(tbl, productId), tbl, <<Request("get", FALSE)>>, productId)
  ELSE Result(ReturnUndefined, tbl, <<Request("get", TRUE)>>, productId)

\* items is data.Items, in the order the store hands it back
listProducts(tbl, ok, items) ==
  IF ok
  THEN Result(Return("items", items), tbl, <<Request("scan", FALSE)>>, "none")
  ELSE Result(ReturnNull, tbl, <<Request("scan", TRUE)>>, "none")

productsByCategory(tbl, category, ok, items) ==
  IF ok
  THEN Result(Return("items", items), tbl, <<Request("query", FALSE)>>, category)
  ELSE Result(ReturnNull, tbl, <<Request("query", TRUE)>>, category)

\* deleteProduct with a condition that the item exists: a missing id is a
\* failed request
deleteProductExistingOnly(tbl, productId, ok) ==
  IF ok /\ productId \in DOMAIN tbl
  THEN Result(Return("id", productId), StoreDelete(tbl, productId),
              <<Request("delete", FALSE)>>, productId)
  ELSE Result(ReturnNull, tbl, <<Request("delete", TRUE)>>, productId)

deleteProduct(tbl, productId, ok) ==
  IF ok
  THEN Result(Return("id", productId), StoreDelete(tbl, productId),
              <<Request("delete", FALSE)>>, productId)
  ELSE Result(ReturnNull, tbl, <<Request("delete", TRUE)>>, productId)

\* updateProduct writing the input as the whole item
updateProductReplacing(tbl, product, ok) ==
  LET params == UpdateParams(product)
  IN IF ~ok
     THEN Result(ReturnNull, tbl, <<Request("update", TRUE)>>, product)
     ELSE IF ~UpdateRequestValid(params)
     THEN Result(ReturnNull, tbl, <<Rejected("update")>>, product)
     ELSE Result(Return("item", product), StorePut(tbl, product),
                 <<Request("update", FALSE)>>, product)

\* updateProduct returning the item as stored after the update
updateProductReturningStored(tbl, product, ok) ==
  LET params == UpdateParams(product)
  IN IF ~ok
     THEN Result(ReturnNull, tbl, <<Request("update", TRUE)>>, product)
     ELSE IF ~UpdateRequestValid(params)
     THEN Result(ReturnNull, tbl, <<Rejected("update")>>, product)
     ELSE Result(Return("item", StoreUpdate(tbl, params)[product.id]),
                 StoreUpdate(tbl, params), <<Request("update", FALSE)>>, product)

updateProduct(tbl, product, ok) ==
  LET params == UpdateParams(product)
  IN IF ~ok
     THEN Result(ReturnNull, tbl, <<Request("update", TRUE)>>, product)
     ELSE IF ~UpdateRequestValid(params)
     THEN Result(ReturnNull, tbl, <<Rejected("update")>>, product)
     ELSE Result(Return("item", product), StoreUpdate(tbl, params),
                 <<Request("update", FALSE)>>, product)

----------------------------------------------------------------------------
(* The dispatcher *)

MutatingOps == {"createProduct", "updateProduct", "deleteProduct"}
ReadOps == {"getProductById", "listProducts", "productsByCategory"}
KnownOps == MutatingOps \cup ReadOps

\* the guard left out of the deleteProduct case
RequiresAdminNotDelete(fieldName) == fieldName \in {"createProduct", "updateProduct"}

\* the guard put on the reads as well
RequiresAdminAlsoReads(fieldName) == fieldName \in KnownOps

\* the guard put on listProducts as well
RequiresAdminAlsoList(fieldName) ==
  fieldName \in {"createProduct", "deleteProduct", "updateProduct", "listProducts"}

\* the guard put before the switch
RequiresAdminAlways(fieldName) == TRUE

\* the cases of the switch that call checkForGroup before their handler
RequiresAdmin(fieldName) ==
  fieldName \in {"createProduct", "deleteProduct", "updateProduct"}

Invoked(name, input, arg) == [handler |-> name, input |-> input, arg |-> arg]
NotInvoked == Invoked("none", "none", "none")

\* exports.handler: what it returns or throws (ret), the table afterwards,
\* the store requests sent, and the handler it called, with the argument as
\* passed (input) and as the handler left it (arg)
handler(tbl, ev, ok, u, items) ==
  LET f == ev.info.fieldName
      guard == checkForGroup(ev, "Admin")
      Ran(r, input) == [ret |-> r.ret, tbl |-> r.tbl, reqs |-> r.reqs,
                        invoked |-> Invoked(f, input, r.arg)]
      NotRun(ret) == [ret |-> ret, tbl |-> tbl, reqs |-> <<>>, invoked |-> NotInvoked]
  IN IF RequiresAdmin(f) /\ guard.kind = "throw" THEN NotRun(guard)
     ELSE IF RequiresAdmin(f) /\ ~guard.val THEN NotRun(Throw("unauthorized"))
     ELSE CASE f = "getProductById" ->
                 Ran(getProductById(tbl, ev.arguments.productId, ok),
                     ev.arguments.productId)
            [] f = "createProduct" ->
                 Ran(createProduct(tbl, ev.arguments.product, ok, u),
                     ev.arguments.product)
            [] f = "listProducts" ->
                 Ran(listProducts(tbl, ok, items), "none")
            [] f = "deleteProduct" ->
                 Ran(deleteProduct(tbl, ev.arguments.productId, ok),
                     ev.arguments.productId)
            [] f = "updateProduct" ->
                 Ran(updateProduct(tbl, ev.arguments.product, ok),
                     ev.arguments.product)
            [] f = "productsByCategory" ->
                 Ran(productsByCategory(tbl, ev.arguments.category, ok, items),
                     ev.arguments.category)
            [] OTHER -> NotRun(ReturnNull)

----------------------------------------------------------------------------
(* The events AppSync delivers.  The API has two authorization modes:      *)
(* API_KEY, where event.identity is null, and USER_POOL, where it carries  *)
(* the claims of the token; cognito:groups is among them only for a user   *)
(* who is in a group.                                                      *)

Identity(claims) == [username |-> "user", claims |-> claims]
GroupsClaim(list) == [c \in {"cognito:groups"} |-> list]

Callers ==
  {Identity(EmptyObject), Identity(GroupsClaim(<<"Editor">>)),
   Identity(GroupsClaim(<<"Admin">>)), Identity(GroupsClaim(<<"Editor", "Admin">>))}

Event(fieldName, arguments) == [info |-> [fieldName |-> fieldName], arguments |-> arguments]

\* the same event, from an anonymous caller or from a signed-in one
FromAnyCaller(ev) == {ev} \cup {WithProp(ev, "identity", c) : c \in Callers}

NoEvent == EmptyObject

\* the groups an event's caller is in
GroupsOf(ev) ==
  IF /\ "identity" \in DOMAIN ev
     /\ "claims" \in DOMAIN ev.identity
     /\ "cognito:groups" \in DOMAIN ev.identity.claims
  THEN Range(ev.identity.claims["cognito:groups"])
  ELSE {}

\* the ids a client can name: its own, or one a createProduct gave it
KnownIds == ClientIds \cup generated
\* ProductInput: id is optional; a client that sends one sends its own or ""
ProductInputs == Patches \cup {WithProp(p, "id", i) : p \in Patches, i \in ClientIds \cup {""}}
\* UpdateProductInput: id is required
UpdateProductInputs == {WithProp(p, "id", i) : p \in Patches, i \in KnownIds}

----------------------------------------------------------------------------
(* One invocation of the Lambda *)

(* The history variable tracked follows one id from a served createProduct  *)
(* or deleteProduct of it on: Created(id, product) while what the latest    *)
(* create of id returned is to be what is stored (no update or delete of id *)
(* was served since), Deleted(id) from a served delete of id until a create *)
(* of id is served.  Which create or delete it starts from is left open.    *)
(* It observes only: Unobserved stays Unobserved.                           *)
Unobserved == [kind |-> "off"]
Untracked == [kind |-> "none"]
Created(id, product) == [kind |-> "created", id |-> id, product |-> product]
Deleted(id) == [kind |-> "deleted", id |-> id]

\* r is what exports.handler did
Observe(t, r) ==
  LET h == r.invoked.handler
      id == IF h = "deleteProduct" THEN r.invoked.input ELSE r.invoked.arg.id
  IN IF t.kind = "off" \/ h \notin MutatingOps \/ r.reqs[1].failed
     THEN {t}
     ELSE IF t.kind = "none"
     THEN CASE h = "createProduct" -> {t, Created(id, r.ret.val)}
            [] h = "deleteProduct" -> {t, Deleted(id)}
            [] OTHER -> {t}
     ELSE IF t.id # id
     THEN {t}
     ELSE CASE h = "createProduct" ->
                 IF t.kind = "created" THEN {Created(id, r.ret.val)} ELSE {Untracked}
            [] h = "deleteProduct" -> {Deleted(id)}
            [] OTHER -> IF t.kind = "created" THEN {Untracked} ELSE {t}

\* createProduct called uuid()
CalledUuid(r) == r.invoked.handler = "createProduct" /\ ~Truthy(r.invoked.input, "id")

Dispatch(ev, ok, u, items) ==
  \E r \in {handler(table, ev, ok, u, items)} :
     /\ CalledUuid(r) <=> u # "none"
     /\ event' = IF r.invoked.handler = "createProduct"
                 THEN [ev EXCEPT !.arguments = [product |-> r.invoked.arg]]
                 ELSE ev
     /\ outcome' = r.ret
     /\ table' = r.tbl
     /\ calls' = r.reqs
     /\ invoked' = r.invoked
     /\ before' = table
     /\ generated' = IF CalledUuid(r) THEN generated \cup {u} ELSE generated
     /\ tracked' \in Observe(tracked, r)
     /\ UNCHANGED <<group, inflight, applied>>

DispatchGetProductById ==
  /\ event = NoEvent
  /\ \E id \in KnownIds, ok \in BOOLEAN :
       \E ev \in FromAnyCaller(Event("getProductById", [productId |-> id])) :
         Dispatch(ev, ok, "none", <<>>)

DispatchListProducts ==
  /\ event = NoEvent
  /\ \E ok \in BOOLEAN, page \in Pages(StoreScan(table)) :
     \E items \in Orderings(page) :
       \E ev \in FromAnyCaller(Event("listProducts", EmptyObject)) :
         Dispatch(ev, ok, "none", IF ok THEN items ELSE <<>>)

DispatchProductsByCategory ==
  /\ event = NoEvent
  /\ \E c \in Categories, ok \in BOOLEAN :
     \E page \in Pages(StoreQuery(table, c)) :
       \E items \in Orderings(page) :
         \E ev \in FromAnyCaller(Event("productsByCategory", [category |-> c])) :
           Dispatch(ev, ok, "none", IF ok THEN items ELSE <<>>)

\* at most MaxUuids calls of uuid() are followed
DispatchCreateProduct ==
  /\ event = NoEvent
  /\ \E p \in ProductInputs, ok \in BOOLEAN :
       \E ev \in FromAnyCaller(Event("createProduct", [product |-> p])) :
         \E u \in {"none"} \cup (IF Cardinality(generated) < MaxUuids THEN uuid(generated) ELSE {}) :
           Dispatch(ev, ok, u, <<>>)

DispatchUpdateProduct ==
  /\ event = NoEvent
  /\ \E p \in UpdateProductInputs, ok \in BOOLEAN :
       \E ev \in FromAnyCaller(Event("updateProduct", [product |-> p])) :
         Dispatch(ev, ok, "none", <<>>)

DispatchDeleteProduct ==
  /\ event = NoEvent
  /\ \E id \in KnownIds, ok \in BOOLEAN :
       \E ev \in FromAnyCaller(Event("deleteProduct", [productId |-> id])) :
         Dispatch(ev, ok, "none", <<>>)

\* a field name the switch has no case for
DispatchUnknown ==
  /\ event = NoEvent
  /\ \E ev \in FromAnyCaller(Event("searchProducts", EmptyObject)) :
       Dispatch(ev, TRUE, "none", <<>>)

\* the invocation ends: nothing of it is kept but the table
Respond ==
  /\ event # NoEvent
  /\ event' = NoEvent
  /\ outcome' = NoOutcome
  /\ invoked' = NotInvoked
  /\ calls' = <<>>
  /\ before' = table
  /\ UNCHANGED <<table, generated, group, tracked, inflight, applied>>

Init ==
  /\ table = EmptyObject
  /\ generated = {}
  /\ event = NoEvent
  /\ outcome = NoOutcome
  /\ invoked = NotInvoked
  /\ calls = <<>>
  /\ before = EmptyObject
  /\ group = "Admin"
  /\ tracked = Unobserved
  /\ inflight = EmptyObject
  /\ applied = <<>>

Next ==
  \/ DispatchGetProductById
  \/ DispatchListProducts
  \/ DispatchProductsByCategory
  \/ DispatchCreateProduct
  \/ DispatchUpdateProduct
  \/ DispatchDeleteProduct
  \/ DispatchUnknown
  \/ Respond

Spec == Init /\ [][Next]_vars

----------------------------------------------------------------------------
(* The guard on its own: checkForGroup applied once to an event and a      *)
(* group name.  The events here are all that the type of the function      *)
(* admits at run time, an identity without claims among them.              *)

GuardIdentities ==
  {[username |-> "user"], Identity(EmptyObject)}
    \cup {Identity(GroupsClaim(list)) : list \in GroupLists}

GuardEvents ==
  UNION {{Event(f, EmptyObject)} \cup {WithProp(Event(f, EmptyObject), "identity", c) :
                                         c \in GuardIdentities} : f \in MutatingOps}

GuardTables == {EmptyObject, StorePut(EmptyObject, [id |-> "1", name |-> "A", category |-> "x"])}

InitGuard ==
  /\ table \in GuardTables
  /\ generated = {}
  /\ event \in GuardEvents
  /\ outcome = NoOutcome
  /\ invoked = NotInvoked
  /\ calls = <<>>
  /\ before = table
  /\ group \in GroupNames
  /\ tracked = Unobserved
  /\ inflight = EmptyObject
  /\ applied = <<>>

GuardCall ==
  /\ outcome.kind = "none"
  /\ outcome' = checkForGroup(event, group)
  /\ UNCHANGED <<table, generated, event, invoked, calls, before, group,
                 tracked, inflight, applied>>

NextGuard == GuardCall

SpecGuard == InitGuard /\ [][NextGuard]_vars

----------------------------------------------------------------------------
(* listProducts on tables of any size: the products stored are any of      *)
(* ListIds, more of them than one Scan request hands back.                 *)

ListIds == {"1", "2", "3", "4", "5"}

ListTables ==
  {[k \in D |-> [id |-> k, name |-> "A", category |-> "x"]] : D \in SUBSET ListIds}

InitList ==
  /\ table \in ListTables
  /\ generated = {}
  /\ event = NoEvent
  /\ outcome = NoOutcome
  /\ invoked = NotInvoked
  /\ calls = <<>>
  /\ before = table
  /\ group = "Admin"
  /\ tracked = Unobserved
  /\ inflight = EmptyObject
  /\ applied = <<>>

NextList == DispatchListProducts \/ Respond

SpecList ==
  /\ InitList
  /\ [][NextList]_vars

----------------------------------------------------------------------------
(* Creates, reads, updates and deletes, with tracked following one id.     *)

InitOrder ==
  /\ table = EmptyObject
  /\ generated = {}
  /\ event = NoEvent
  /\ outcome = NoOutcome
  /\ invoked = NotInvoked
  /\ calls = <<>>
  /\ before = EmptyObject
  /\ group = "Admin"
  /\ tracked = Untracked
  /\ inflight = EmptyObject
  /\ applied = <<>>

NextOrder ==
  \/ DispatchCreateProduct
  \/ DispatchGetProductById
  \/ DispatchUpdateProduct
  \/ DispatchDeleteProduct
  \/ Respond

SpecOrder == InitOrder /\ [][NextOrder]_vars

----------------------------------------------------------------------------
(* Concurrent invocations of updateProduct for one id, by callers in Admin. *)
(* An invocation shares nothing with another but the table, and touches it  *)
(* in its one UpdateItem request, which the store applies to the item as a  *)
(* whole; so the invocations interleave as the store orders their requests. *)

ConcurrentId == "1"

ConcurrentTables ==
  {EmptyObject}
    \cup {[k \in {ConcurrentId} |-> WithProp(p, "id", ConcurrentId)] : p \in Patches}

ConcurrentEvents ==
  {ev \in UNION {FromAnyCaller(Event("updateProduct",
                                      [product |-> WithProp(p, "id", ConcurrentId)])) :
                   p \in Patches} :
     "Admin" \in GroupsOf(ev)}

InitConcurrent ==
  /\ table \in ConcurrentTables
  /\ generated = {}
  /\ event = NoEvent
  /\ outcome = NoOutcome
  /\ invoked = NotInvoked
  /\ calls = <<>>
  /\ before = table
  /\ group = "Admin"
  /\ tracked = Unobserved
  /\ inflight \in [1..MaxCalls -> ConcurrentEvents]
  /\ applied = <<>>

\* the store takes the request of one of the invocations in flight
ConcurrentUpdate ==
  \E c \in DOMAIN inflight, ok \in BOOLEAN :
    \E r \in {handler(table, inflight[c], ok, "none", <<>>)} :
      /\ table' = r.tbl
      /\ applied' = Append(applied, [call |-> c, input |-> r.invoked.input,
                                     ret |-> r.ret, reqs |-> r.reqs])
      /\ inflight' = [k \in DOMAIN inflight \ {c} |-> inflight[k]]
      /\ UNCHANGED <<generated, event, outcome, invoked, calls, before, group, tracked>>

NextConcurrent == ConcurrentUpdate

SpecConcurrent == InitConcurrent /\ [][NextConcurrent]_vars

----------------------------------------------------------------------------
(* Properties.  In a state with event # NoEvent the invocation of that     *)
(* event has run: outcome, invoked and calls are its, table is the table   *)
(* after it and before the table it started from.                          *)

FieldName == event.info.fieldName
Dispatched(ops) == event # NoEvent /\ FieldName \in ops
\* the store served the one request of the invocation
Served == calls # <<>> /\ ~calls[1].failed

\* C1: a createProduct, updateProduct or deleteProduct from a caller without
\* identity, or whose groups do not include "Admin", throws 'unauthorized':
\* no handler is invoked, no store request is sent, the table is as before.
C1_UnauthorizedMutationRefused ==
  (Dispatched(MutatingOps) /\ "Admin" \notin GroupsOf(event))
    => /\ outcome.kind = "throw"
       /\ outcome.val = "unauthorized"
       /\ invoked.handler = "none"
       /\ calls = <<>>
       /\ table = before

\* a signed-in caller in the group Editor only is refused the delete of a stored product
C1_Witness ==
  /\ Dispatched({"deleteProduct"})
  /\ GroupsOf(event) = {"Editor"}
  /\ outcome.kind = "throw"
  /\ event.arguments.productId \in DOMAIN table

\* C2: a caller whose groups include "Admin", alone or among others, passes
\* the check of the three mutating operations: nothing is thrown and the
\* operation's handler is invoked with the operation's argument.
C2_AdminMutationDispatched ==
  (Dispatched(MutatingOps) /\ "Admin" \in GroupsOf(event))
    => /\ outcome.kind = "return"
       /\ invoked.handler = FieldName
       /\ invoked.arg = IF FieldName = "deleteProduct"
                        THEN event.arguments.productId
                        ELSE event.arguments.product

\* a caller in Editor and Admin, Admin second, has updateProduct run
C2_Witness ==
  /\ Dispatched({"updateProduct"})
  /\ "identity" \in DOMAIN event
  /\ event.identity = Identity(GroupsClaim(<<"Editor", "Admin">>))
  /\ invoked.handler = "updateProduct"
  /\ Served

\* C3: the three reads run for every caller, an anonymous one included:
\* their handler is invoked and nothing is thrown.
C3_ReadsNeedNoIdentity ==
  Dispatched(ReadOps) => (invoked.handler = FieldName /\ outcome.kind = "return")

\* an anonymous caller reads a stored product by id
C3_Witness ==
  /\ Dispatched({"getProductById"})
  /\ "identity" \notin DOMAIN event
  /\ outcome.type = "item"

\* C4: a field name that is none of the six returns null for every caller,
\* throws nothing and sends no store request.
C4_UnknownOperationReturnsNull ==
  (event # NoEvent /\ FieldName \notin KnownOps)
    => /\ outcome.kind = "return"
       /\ outcome.type = "null"
       /\ invoked.handler = "none"
       /\ calls = <<>>
       /\ table = before

\* an anonymous caller sends an unknown field name while products are stored
C4_Witness ==
  /\ event # NoEvent
  /\ FieldName \notin KnownOps
  /\ "identity" \notin DOMAIN event
  /\ outcome.type = "null"
  /\ DOMAIN table # {}

\* C5: checkForGroup returns true exactly when the group name is an element
\* of the caller's cognito:groups list, compared as exact strings, and it
\* changes neither the event nor the table.
C5_GuardExactMembership ==
  /\ [](outcome.kind # "none"
          => ((outcome.kind = "return" /\ outcome.val) <=> group \in GroupsOf(event)))
  /\ [][event' = event /\ table' = table]_vars

\* asked for "Admin", the guard says yes to the list <<"admin", "Admin">>
C5_Witness ==
  /\ outcome.kind = "return"
  /\ outcome.val
  /\ group = "Admin"
  /\ "identity" \in DOMAIN event
  /\ event.identity = Identity(GroupsClaim(<<"admin", "Admin">>))

\* C6: checkForGroup returns false, and throws nothing, when the event has no
\* identity and when the identity has no group claims, be it the
\* cognito:groups entry or the whole claims object that is missing.
C6_GuardFalseWithoutGroupClaims ==
  (/\ outcome.kind # "none"
   /\ \/ "identity" \notin DOMAIN event
      \/ "claims" \notin DOMAIN event.identity
      \/ "cognito:groups" \notin DOMAIN event.identity.claims)
    => (outcome.kind = "return" /\ outcome.val = FALSE)

\* C7: 'unauthorized' is the only error exports.handler throws: when the
\* store fails the request of a handler, the handler catches it and the
\* result is null (undefined from getProductById).
C7_StoreFailuresSwallowed ==
  /\ outcome.kind = "throw" => outcome.val = "unauthorized"
  /\ (calls # <<>> /\ calls[1].failed)
       => /\ outcome.kind = "return"
          /\ outcome.type = IF invoked.handler = "getProductById"
                            THEN "undefined" ELSE "null"

\* the store fails an Admin's update and the caller gets null
C7_Witness ==
  /\ Dispatched({"updateProduct"})
  /\ calls # <<>>
  /\ calls[1].failed
  /\ outcome.type = "null"

\* C8: createProduct with an input whose id is absent or "" gives it a newly
\* generated, non-empty id, stores the product under that id and returns it
\* with the id; no generated id is one that was generated before.
C8_IdGenerated ==
  /\ []((Dispatched({"createProduct"}) /\ invoked.handler = "createProduct"
           /\ ~Truthy(invoked.input, "id") /\ Served)
          => /\ outcome.type = "item"
             /\ Truthy(outcome.val, "id")
             /\ outcome.val.id \in generated
             /\ outcome.val = WithProp(invoked.input, "id", outcome.val.id)
             /\ outcome.val.id \in DOMAIN table
             /\ table[outcome.val.id] = outcome.val)
  /\ [][(invoked'.handler = "createProduct" /\ ~Truthy(invoked'.input, "id"))
          => invoked'.arg.id \notin generated]_vars

\* a second id is generated, for an input whose id is "", and both generated
\* ids are stored
C8_Witness ==
  /\ Dispatched({"createProduct"})
  /\ invoked.handler = "createProduct"
  /\ "id" \in DOMAIN invoked.input
  /\ invoked.input.id = ""
  /\ Served
  /\ Cardinality(generated) = 2
  /\ generated \subseteq DOMAIN table

\* C9: createProduct with a non-empty id stores the input under that id,
\* unchanged, as a put: an item already stored under the id is replaced as a
\* whole, so the stored item has the attributes of the input and no other.
C9_ExplicitIdPut ==
  (Dispatched({"createProduct"}) /\ invoked.handler = "createProduct"
     /\ Truthy(invoked.input, "id") /\ Served)
    => /\ outcome.type = "item"
       /\ outcome.val = invoked.input
       /\ invoked.input.id \in DOMAIN table
       /\ table[invoked.input.id] = invoked.input
       /\ DOMAIN table[invoked.input.id] = DOMAIN invoked.input

\* an item with a name is overwritten by an input without one
C9_Witness ==
  /\ Dispatched({"createProduct"})
  /\ invoked.handler = "createProduct"
  /\ Truthy(invoked.input, "id")
  /\ Served
  /\ invoked.input.id \in DOMAIN before
  /\ "name" \in DOMAIN before[invoked.input.id]
  /\ "name" \notin DOMAIN invoked.input

\* C10: a served updateProduct of a stored product sets each attribute of the
\* input other than id to the input's value; every attribute absent from the
\* input keeps its value, the id is unchanged, and so is every other product.
C10_PartialUpdate ==
  (Dispatched({"updateProduct"}) /\ invoked.handler = "updateProduct"
     /\ Served /\ invoked.input.id \in DOMAIN before)
    => LET input == invoked.input
           id == input.id
       IN /\ DOMAIN table = DOMAIN before
          /\ DOMAIN table[id] = DOMAIN before[id] \cup DOMAIN input
          /\ \A a \in DOMAIN table[id] :
               table[id][a] = IF a \in DOMAIN input \ {"id"} THEN input[a] ELSE before[id][a]
          /\ table[id].id = id
          /\ \A k \in DOMAIN before \ {id} : table[k] = before[k]

\* an update of the category alone, of a product that has a name and another
\* category, while a second product is stored
C10_Witness ==
  /\ Dispatched({"updateProduct"})
  /\ invoked.handler = "updateProduct"
  /\ Served
  /\ DOMAIN invoked.input = {"id", "category"}
  /\ invoked.input.id \in DOMAIN before
  /\ DOMAIN before[invoked.input.id] = {"id", "name", "category"}
  /\ before[invoked.input.id].category # invoked.input.category
  /\ Cardinality(DOMAIN table) > 1

\* C11: a served updateProduct returns its input, with the attributes the
\* caller sent and no other, and not the item as stored after the update:
\* the two differ whenever the stored item has an attribute the input omits.
C11_UpdateReturnsInput ==
  (Dispatched({"updateProduct"}) /\ invoked.handler = "updateProduct" /\ Served)
    => LET input == invoked.input
           stored == table[input.id]
       IN /\ outcome.kind = "return"
          /\ outcome.type = "item"
          /\ outcome.val = input
          /\ DOMAIN outcome.val = DOMAIN input
          /\ (DOMAIN stored \ DOMAIN input # {}) => outcome.val # stored

\* an update of the name alone, of a product that has a category: the item
\* stored afterwards has the category, what is returned has not
C11_Witness ==
  /\ Dispatched({"updateProduct"})
  /\ invoked.handler = "updateProduct"
  /\ Served
  /\ DOMAIN invoked.input = {"id", "name"}
  /\ "category" \in DOMAIN table[invoked.input.id]
  /\ "category" \notin DOMAIN outcome.val

\* C12: a served deleteProduct(id) returns id and leaves the table without
\* an item under id and with every other item as it was; with no item under
\* id the table is unchanged; a second deleteProduct(id) gives the same
\* table and the same result as the first.
C12_DeleteIdempotent ==
  (Dispatched({"deleteProduct"}) /\ invoked.handler = "deleteProduct" /\ Served)
    => LET id == invoked.input
           again == deleteProduct(table, id, TRUE)
       IN /\ outcome.kind = "return"
          /\ outcome.type = "id"
          /\ outcome.val = id
          /\ DOMAIN table = DOMAIN before \ {id}
          /\ \A k \in DOMAIN table : table[k] = before[k]
          /\ id \notin DOMAIN before => table = before
          /\ again.tbl = table
          /\ again.ret = outcome

\* a delete of an id that is not stored, while another product is
C12_Witness ==
  /\ Dispatched({"deleteProduct"})
  /\ invoked.handler = "deleteProduct"
  /\ Served
  /\ invoked.input \notin DOMAIN before
  /\ DOMAIN before # {}
  /\ outcome.type = "id"

C14_CreateReadDeleteOrdering ==
  (/\ Dispatched({"getProductById"})
   /\ invoked.handler = "getProductById"
   /\ Served
   /\ tracked.kind \in {"created", "deleted"}
   /\ tracked.id = invoked.input)
    => /\ outcome.kind = "return"
       /\ tracked.kind = "created"
            => (outcome.type = "item" /\ outcome.val = tracked.product)
       /\ tracked.kind = "deleted" => outcome.type = "undefined"

\* C15: a served listProducts returns every item of the table, each once,
\* however many there are, and the empty sequence for the empty table.
C15_ListReturnsEveryItem ==
  (Dispatched({"listProducts"}) /\ invoked.handler = "listProducts" /\ Served)
    => /\ outcome.kind = "return"
       /\ outcome.type = "items"
       /\ Range(outcome.val) = {table[k] : k \in DOMAIN table}
       /\ Len(outcome.val) = Cardinality(DOMAIN table)
       /\ DOMAIN table = {} => outcome.val = <<>>

\* the store could not be reached, or throttled the request
Unavailable == calls # <<>> /\ calls[1].failed /\ "error" \notin DOMAIN calls[1]

\* C17: an updateProduct whose input has no attribute besides id is a no-op
\* update: the store accepts the request, the table is unchanged and the
\* input is returned, as by any served update.
C17_IdOnlyUpdateIsNoOp ==
  (/\ Dispatched({"updateProduct"})
   /\ invoked.handler = "updateProduct"
   /\ DOMAIN invoked.input = {"id"}
   /\ ~Unavailable)
    => /\ ~calls[1].failed
       /\ table = before
       /\ outcome.kind = "return"
       /\ outcome.type = "item"
       /\ outcome.val = invoked.input

\* C18: only createProduct adds an id to the table: an updateProduct leaves
\* the set of stored ids as it was, for an id that is not stored as well, a
\* deleteProduct only removes, and nothing else changes the table.
C18_OnlyCreateAddsIds ==
  event # NoEvent
    => /\ invoked.handler # "createProduct" => DOMAIN table \subseteq DOMAIN before
       /\ invoked.handler = "updateProduct" => DOMAIN table = DOMAIN before
       /\ invoked.handler = "deleteProduct"
            => \A k \in DOMAIN table : k \in DOMAIN before /\ table[k] = before[k]

\* the read requests a client may send, without the caller
ReadEvents ==
  {Event("getProductById", [productId |-> id]) : id \in KnownIds}
    \cup {Event("listProducts", EmptyObject)}
    \cup {Event("productsByCategory", [category |-> c]) : c \in Categories}

\* what the store may answer to the request of a read, served
StoreResponses(tbl, ev) ==
  CASE ev.info.fieldName = "listProducts" ->
         UNION {Orderings(page) : page \in Pages(StoreScan(tbl))}
    [] ev.info.fieldName = "productsByCategory" ->
         UNION {Orderings(page) : page \in Pages(StoreQuery(tbl, ev.arguments.category))}
    [] OTHER -> {<<>>}

SameResult(a, b) == a.kind = b.kind /\ a.type = b.type /\ a.val = b.val

\* C19: the three reads leave the table as it was, whether the store serves
\* or fails their request, and with the same table, the same arguments and
\* the same answer of the store they give any two callers (anonymous, in
\* Admin, in other groups or in none) the same result.
C19_ReadsReadOnlyIdentityIndependent ==
  /\ Dispatched(ReadOps) => table = before
  /\ event = NoEvent
       => \A ev \in ReadEvents, ok \in BOOLEAN :
            \A items \in StoreResponses(table, ev) :
              \A e1 \in FromAnyCaller(ev), e2 \in FromAnyCaller(ev) :
                /\ SameResult(handler(table, e1, ok, "none", items).ret,
                              handler(table, e2, ok, "none", items).ret)
                /\ handler(table, e1, ok, "none", items).tbl = table

\* an anonymous caller has asked for a category and got the products of it
C19_Witness ==
  /\ Dispatched({"productsByCategory"})
  /\ "identity" \notin DOMAIN event
  /\ Served
  /\ Len(outcome.val) > 0
  /\ table = before

\* C16: concurrent updateProduct calls of callers in Admin, for one id,
\* however the store orders them: each attribute holds the value of the last
\* served call among those that gave it, so an attribute only one call gave
\* holds that call's value; an attribute no call gave is as it was; and no
\* call that has an attribute to set is refused unless the store is
\* unavailable: it returns its input.
C16_LastWriteWinsPerAttribute ==
  LET id == ConcurrentId
      served == {i \in 1..Len(applied) : ~applied[i].reqs[1].failed}
      Suppliers(a) == {i \in served : a \in DOMAIN applied[i].input}
      Last(S) == CHOOSE i \in S : \A j \in S : j <= i
      Had(a) == id \in DOMAIN before /\ a \in DOMAIN before[id]
  IN /\ served = {} => table = before
     /\ served # {}
          => /\ DOMAIN table = {id}
             /\ \A a \in NonKeyAttrs :
                  IF Suppliers(a) # {}
                  THEN /\ a \in DOMAIN table[id]
                       /\ table[id][a] = applied[Last(Suppliers(a))].input[a]
                  ELSE /\ a \in DOMAIN table[id] <=> Had(a)
                       /\ Had(a) => table[id][a] = before[id][a]
     /\ \A i \in 1..Len(applied) :
          (/\ DOMAIN applied[i].input # {"id"}
           /\ ~(applied[i].reqs[1].failed /\ "error" \notin DOMAIN applied[i].reqs[1]))
            => /\ i \in served
               /\ applied[i].ret.type = "item"
               /\ applied[i].ret.val = applied[i].input

\* a product with a category; one call gives a name and a category, the call
\* served after it the other category alone: the name of the first stays,
\* the category is the second's
C16_Witness ==
  /\ inflight = EmptyObject
  /\ Len(applied) = 2
  /\ ~applied[1].reqs[1].failed
  /\ ~applied[2].reqs[1].failed
  /\ DOMAIN applied[1].input = {"id", "name", "category"}
  /\ DOMAIN applied[2].input = {"id", "category"}
  /\ applied[1].input.category # applied[2].input.category
  /\ ConcurrentId \in DOMAIN before
  /\ "name" \notin DOMAIN before[ConcurrentId]
  /\ table[ConcurrentId].name = applied[1].input.name
  /\ table[ConcurrentId].category = applied[2].input.category

====
